---- MODULE Spec2Model ----
(***************************************************************************)
(* colordoll: ANSI colorization engine (src/src/colordoll.py).             *)
(*                                                                         *)
(* Text is a sequence of characters, each character a one-element string;  *)
(* "ESC" stands for the single character \033.  Color names are sequences  *)
(* of name chunks (<<"bg_", "red">> is the Python string "bg_red"), so     *)
(* that prefixing, str.replace("bg_", "") and str.lower() are computed.    *)
(***************************************************************************)
EXTENDS Integers, Sequences, FiniteSets, TLC

VARIABLES pc, source, config, colors, bg_colors,
          op, text, color, background_color, inner, data,
          theme, level, result, returned, raised

vars == <<pc, source, config, colors, bg_colors,
          op, text, color, background_color, inner, data,
          theme, level, result, returned, raised>>

----------------------------------------------------------------------------
(* Bounds *)

MaxLen == 4

MaxPlain == 1

MaxItems == 2

MaxDepth == 2

MaxIndent == 1

----------------------------------------------------------------------------
(* Characters and strings *)

ESC == "ESC"

Chars == {ESC, "[", "0", "m", "a"}

RECURSIVE SeqsUpTo(_, _)
SeqsUpTo(S, n) ==
    IF n = 0 THEN {<<>>}
    ELSE LET shorter == SeqsUpTo(S, n - 1)
         IN  shorter \cup {Append(s, c) : s \in {x \in shorter : Len(x) = n - 1}, c \in S}

Texts == SeqsUpTo(Chars, MaxLen)

\* escape-free pieces a caller concatenates around an inner colorize call
Plain == SeqsUpTo({"a"}, MaxPlain)

DigitChar == <<"0", "1", "2", "3", "4", "5", "6", "7", "8", "9">>

RECURSIVE IntToStr(_)
IntToStr(n) ==
    IF n < 0 THEN <<"-">> \o IntToStr(0 - n)
    ELSE IF n < 10 THEN <<DigitChar[n + 1]>>
    ELSE IntToStr(n \div 10) \o <<DigitChar[(n % 10) + 1]>>

StartsWith(s, prefix, i) ==
    /\ i + Len(prefix) - 1 <= Len(s)
    /\ \A k \in 1..Len(prefix) : s[i + k - 1] = prefix[k]

RECURSIVE SplitFrom(_, _, _, _)
SplitFrom(s, sep, i, cur) ==
    IF i > Len(s) THEN <<cur>>
    ELSE IF s[i] = sep THEN <<cur>> \o SplitFrom(s, sep, i + 1, <<>>)
    ELSE SplitFrom(s, sep, i + 1, Append(cur, s[i]))

Split(s, sep) == SplitFrom(s, sep, 1, <<>>)

LowerChunk(c) ==
    CASE c = "RED" -> "red"
      [] c = "BLUE" -> "blue"
      [] c = "BG_" -> "bg_"
      [] OTHER -> c

Lower(name) == [k \in 1..Len(name) |-> LowerChunk(name[k])]

RECURSIVE ReplaceChunk(_, _)
ReplaceChunk(name, old) ==
    IF name = <<>> THEN <<>>
    ELSE IF Head(name) = old THEN ReplaceChunk(Tail(name), old)
    ELSE <<Head(name)>> \o ReplaceChunk(Tail(name), old)

----------------------------------------------------------------------------
(* AnsiColor *)

AnsiColor(code, name) == [code |-> code, name |-> name]

AnsiColorStr(c) == <<ESC, "[">> \o IntToStr(c.code) \o <<"m">>

RESET == AnsiColor(0, <<"reset">>)

----------------------------------------------------------------------------
(* ColorConfig *)

NoSource == [n \in {} |-> [has_code |-> TRUE, code |-> 0]]

Entry(c) == [has_code |-> TRUE, code |-> c]

Malformed == [has_code |-> FALSE, code |-> 0]

\* None, or a mapping with overriding, additional and malformed entries
ConfigSources ==
    { NoSource,
      [n \in {<<"red">>, <<"orange">>, <<"bg_", "blue">>, <<"bg_", "orange">>, <<"grey">>} |->
          CASE n = <<"red">> -> Entry(35)
            [] n = <<"orange">> -> Entry(93)
            [] n = <<"bg_", "blue">> -> Entry(45)
            [] n = <<"bg_", "orange">> -> Entry(103)
            [] OTHER -> Malformed] }

load_config(config_source) == config_source

ColorConfigInit(config_source) ==
    IF DOMAIN config_source # {} THEN load_config(config_source) ELSE NoSource

\* returns [exc, obj, found]
_get_color_object(arg0) ==
    IF arg0 \notin DOMAIN config
    THEN [exc |-> "none", found |-> FALSE, obj |-> RESET]
    ELSE IF ~config[arg0].has_code
    THEN [exc |-> "AssertionError", found |-> FALSE, obj |-> RESET]
    ELSE [exc |-> "none", found |-> TRUE,
          obj |-> AnsiColor(config[arg0].code, arg0)]

get_color_obj(color_name) == _get_color_object(color_name)

get_bg_color_obj(color_name) == _get_color_object(<<"bg_">> \o color_name)

ConfigColorCode(r) ==
    IF r.exc # "none" THEN [exc |-> r.exc, out |-> <<>>]
    ELSE [exc |-> "none", out |-> IF r.found THEN AnsiColorStr(r.obj) ELSE <<>>]

config_get_color_code(color_name) == ConfigColorCode(get_color_obj(color_name))

config_get_bg_color_code(color_name) == ConfigColorCode(get_bg_color_obj(color_name))

----------------------------------------------------------------------------
(* Colorizer *)

ansi_colors ==
    { <<<<"black">>, 30>>, <<<<"red">>, 31>>, <<<<"green">>, 32>>,
      <<<<"yellow">>, 33>>, <<<<"blue">>, 34>>, <<<<"magenta">>, 35>>,
      <<<<"cyan">>, 36>>, <<<<"white">>, 37>>,
      <<<<"bright_black">>, 90>>, <<<<"bright_red">>, 91>>,
      <<<<"bright_green">>, 92>>, <<<<"bright_yellow">>, 93>>,
      <<<<"bright_blue">>, 94>>, <<<<"bright_magenta">>, 95>>,
      <<<<"bright_cyan">>, 96>>, <<<<"bright_white">>, 97>> }

ansi_bg_colors ==
    { <<<<"bg_", "black">>, 40>>, <<<<"bg_", "red">>, 41>>,
      <<<<"bg_", "green">>, 42>>, <<<<"bg_", "yellow">>, 43>>,
      <<<<"bg_", "blue">>, 44>>, <<<<"bg_", "magenta">>, 45>>,
      <<<<"bg_", "cyan">>, 46>>, <<<<"bg_", "white">>, 47>>,
      <<<<"bg_", "bright_black">>, 100>>, <<<<"bg_", "bright_red">>, 101>>,
      <<<<"bg_", "bright_green">>, 102>>, <<<<"bg_", "bright_yellow">>, 103>>,
      <<<<"bg_", "bright_blue">>, 104>>, <<<<"bg_", "bright_magenta">>, 105>>,
      <<<<"bg_", "bright_cyan">>, 106>>, <<<<"bg_", "bright_white">>, 107>> }

LoadedColors ==
    [n \in {p[1] : p \in ansi_colors} |->
        AnsiColor((CHOOSE p \in ansi_colors : p[1] = n)[2], n)]

LoadedBgColors ==
    [n \in {ReplaceChunk(p[1], "bg_") : p \in ansi_bg_colors} |->
        LET p == CHOOSE q \in ansi_bg_colors : ReplaceChunk(q[1], "bg_") = n
        IN  AnsiColor(p[2], p[1])]

get_color_code(color_name) ==
    LET key == Lower(color_name)
    IN  IF key \in DOMAIN colors THEN AnsiColorStr(colors[key]) ELSE <<>>

get_bg_color_code(color_name) ==
    LET key == Lower(color_name)
    IN  IF key \in DOMAIN bg_colors THEN AnsiColorStr(bg_colors[key]) ELSE <<>>

reset_code == AnsiColorStr(RESET)

NoColor == <<>>

CodeDigits(code_str) == Split(Split(code_str, "[")[2], "m")[1]

\* variant: two consecutive sequences instead of one composite sequence
StartTag_TwoSequences(color_code, bg_color_code) ==
    IF color_code # <<>> /\ bg_color_code # <<>>
    THEN color_code \o bg_color_code
    ELSE IF color_code # <<>> THEN color_code
    ELSE IF bg_color_code # <<>> THEN bg_color_code
    ELSE <<>>

\* variant: the composite sequence is left unterminated
StartTag_Unterminated(color_code, bg_color_code) ==
    IF color_code # <<>> /\ bg_color_code # <<>>
    THEN <<ESC, "[">> \o CodeDigits(color_code) \o <<";">>
             \o CodeDigits(bg_color_code)
    ELSE IF color_code # <<>> THEN color_code
    ELSE IF bg_color_code # <<>> THEN bg_color_code
    ELSE <<>>

StartTag(color_code, bg_color_code) ==
    IF color_code # <<>> /\ bg_color_code # <<>>
    THEN <<ESC, "[">> \o CodeDigits(color_code) \o <<";">>
             \o CodeDigits(bg_color_code) \o <<"m">>
    ELSE IF color_code # <<>> THEN color_code
    ELSE IF bg_color_code # <<>> THEN bg_color_code
    ELSE <<>>

\* variant: the style is not re-applied after an embedded reset
RECURSIVE ProcessFrom_NoReapply(_, _, _)
ProcessFrom_NoReapply(text_segment, i, start_tag) ==
    IF i > Len(text_segment) THEN <<>>
    ELSE IF StartsWith(text_segment, reset_code, i)
    THEN reset_code
             \o ProcessFrom_NoReapply(text_segment, i + Len(reset_code), start_tag)
    ELSE <<text_segment[i]>> \o ProcessFrom_NoReapply(text_segment, i + 1, start_tag)

RECURSIVE ProcessFrom(_, _, _)
ProcessFrom(text_segment, i, start_tag) ==
    IF i > Len(text_segment) THEN <<>>
    ELSE IF StartsWith(text_segment, reset_code, i)
    THEN reset_code \o start_tag
             \o ProcessFrom(text_segment, i + Len(reset_code), start_tag)
    ELSE <<text_segment[i]>> \o ProcessFrom(text_segment, i + 1, start_tag)

_process_text(text_segment, start_tag) == ProcessFrom(text_segment, 1, start_tag)

\* variant: the processed text is returned without the trailing reset
Tagged_NoEndTag(t, start_tag) == start_tag \o _process_text(t, start_tag)

\* start_tag + processed_text + end_tag
Tagged(t, start_tag) == start_tag \o _process_text(t, start_tag) \o reset_code

\* variant: no early return when nothing resolves
colorize_codes_NoFastPath(t, color_code, bg_color_code) ==
    Tagged(t, StartTag(color_code, bg_color_code))

\* colorize from line 214 on, the two fragments resolved
colorize_codes(t, color_code, bg_color_code) ==
    IF color_code = <<>> /\ bg_color_code = <<>> THEN t
    ELSE Tagged(t, StartTag(color_code, bg_color_code))

\* an absent color (None) and the empty name are both falsy
colorize(t, c, b) ==
    colorize_codes(t, IF c # <<>> THEN get_color_code(c) ELSE <<>>,
                      IF b # <<>> THEN get_bg_color_code(b) ELSE <<>>)

----------------------------------------------------------------------------
(* Python values: what a wrapped callable returns, what theme_colorize is  *)
(* given.  t is the type; s the characters of a str, or the text an object *)
(* stringifies to; n the value of a number (a float n stands for n.0) or   *)
(* of a bool; keys/kids the entries of a dict, kids the items of a list;   *)
(* fx what str()/repr() of an object does.                                 *)

Val(t, s, n, keys, kids, fx) ==
    [t |-> t, s |-> s, n |-> n, keys |-> keys, kids |-> kids, fx |-> fx]

PStr(s) == Val("str", s, 0, <<>>, <<>>, "ok")

PBool(b) == Val("bool", <<>>, IF b THEN 1 ELSE 0, <<>>, <<>>, "ok")

PInt(n) == Val("int", <<>>, n, <<>>, <<>>, "ok")

PFloat(n) == Val("float", <<>>, n, <<>>, <<>>, "ok")

PNone == Val("none", <<>>, 0, <<>>, <<>>, "ok")

PList(kids) == Val("list", <<>>, 0, <<>>, kids, "ok")

PDict(keys, kids) == Val("dict", <<>>, 0, keys, kids, "ok")

PObj(s, fx) == Val("obj", s, 0, <<>>, <<>>, fx)

\* an entry of a list / dict that is the container holding it (a.append(a),
\* d["a"] = d); s is what repr() prints in its place
PCycle(t) ==
    Val("cycle", IF t = "list" THEN <<"[", ".", ".", ".", "]">>
                               ELSE <<"{", ".", ".", ".", "}">>, 0, <<>>, <<>>, "ok")

Ok(out) == [exc |-> "none", out |-> out]

Raise(exc) == [exc |-> exc, out |-> <<>>]

\* repr() of a str: quote choice and escapes
RECURSIVE ReprChars(_, _)
ReprChars(s, quote) ==
    IF s = <<>> THEN <<>>
    ELSE LET c == Head(s)
             e == CASE c = "\\" -> <<"\\", "\\">>
                    [] c = quote -> <<"\\", quote>>
                    [] c = ESC -> <<"\\", "x", "1", "b">>
                    [] c = "\n" -> <<"\\", "n">>
                    [] OTHER -> <<c>>
         IN  e \o ReprChars(Tail(s), quote)

StrRepr(s) ==
    LET has(c) == \E i \in 1..Len(s) : s[i] = c
        quote == IF has("'") /\ ~has("\"") THEN "\"" ELSE "'"
    IN  <<quote>> \o ReprChars(s, quote) \o <<quote>>

\* one entry joined to the entries after it; the first failure wins
JoinStep(lead, item, sep, rest) ==
    IF item.exc # "none" THEN item
    ELSE IF rest.exc # "none" THEN rest
    ELSE Ok(lead \o item.out \o sep \o rest.out)

Bracket(open, r, close) ==
    IF r.exc # "none" THEN r ELSE Ok(open \o r.out \o close)

RECURSIVE PyRepr(_)
RECURSIVE JoinRepr(_, _)

\* ", ".join of the reprs of the entries from index i on
JoinRepr(v, i) ==
    IF i > Len(v.kids) THEN Ok(<<>>)
    ELSE JoinStep(IF v.t = "dict" THEN StrRepr(v.keys[i]) \o <<":", " ">> ELSE <<>>,
                  PyRepr(v.kids[i]),
                  IF i < Len(v.kids) THEN <<",", " ">> ELSE <<>>,
                  JoinRepr(v, i + 1))

PyRepr(v) ==
    CASE v.t = "str" -> Ok(StrRepr(v.s))
      [] v.t = "bool" -> Ok(IF v.n = 1 THEN <<"T", "r", "u", "e">>
                                       ELSE <<"F", "a", "l", "s", "e">>)
      [] v.t = "int" -> Ok(IntToStr(v.n))
      [] v.t = "float" -> Ok(IntToStr(v.n) \o <<".", "0">>)
      [] v.t = "none" -> Ok(<<"N", "o", "n", "e">>)
      [] v.t = "list" -> Bracket(<<"[">>, JoinRepr(v, 1), <<"]">>)
      [] v.t = "dict" -> Bracket(<<"{">>, JoinRepr(v, 1), <<"}">>)
      [] OTHER -> IF v.fx = "ok" THEN Ok(v.s) ELSE Raise(v.fx)

\* str(v)
PyStr(v) == IF v.t = "str" THEN Ok(v.s) ELSE PyRepr(v)

----------------------------------------------------------------------------
(* json.dumps / json.loads on the characters the model's strings use: no   *)
(* fraction other than .0, no exponent, no NaN/Infinity, \u only for ESC.  *)

Digits == {DigitChar[k] : k \in 1..10}

DigitVal(c) == (CHOOSE k \in 1..10 : DigitChar[k] = c) - 1

RECURSIVE StrToInt(_)
StrToInt(s) ==
    IF s = <<>> THEN 0
    ELSE StrToInt(SubSeq(s, 1, Len(s) - 1)) * 10 + DigitVal(s[Len(s)])

RECURSIVE JsonEscape(_)
JsonEscape(s) ==
    IF s = <<>> THEN <<>>
    ELSE LET c == Head(s)
             e == CASE c = "\"" -> <<"\\", "\"">>
                    [] c = "\\" -> <<"\\", "\\">>
                    [] c = "\n" -> <<"\\", "n">>
                    [] c = ESC -> <<"\\", "u", "0", "0", "1", "b">>
                    [] OTHER -> <<c>>
         IN  e \o JsonEscape(Tail(s))

RECURSIVE JsonDumps(_)
RECURSIVE JoinDumps(_, _)

JoinDumps(v, i) ==
    IF i > Len(v.kids) THEN Ok(<<>>)
    ELSE JoinStep(IF v.t = "dict"
                  THEN <<"\"">> \o JsonEscape(v.keys[i]) \o <<"\"", ":", " ">>
                  ELSE <<>>,
                  JsonDumps(v.kids[i]),
                  IF i < Len(v.kids) THEN <<",", " ">> ELSE <<>>,
                  JoinDumps(v, i + 1))

JsonDumps(v) ==
    CASE v.t = "str" -> Ok(<<"\"">> \o JsonEscape(v.s) \o <<"\"">>)
      [] v.t = "bool" -> Ok(IF v.n = 1 THEN <<"t", "r", "u", "e">>
                                       ELSE <<"f", "a", "l", "s", "e">>)
      [] v.t = "int" -> Ok(IntToStr(v.n))
      [] v.t = "float" -> Ok(IntToStr(v.n) \o <<".", "0">>)
      [] v.t = "none" -> Ok(<<"n", "u", "l", "l">>)
      [] v.t = "list" -> Bracket(<<"[">>, JoinDumps(v, 1), <<"]">>)
      [] v.t = "dict" -> Bracket(<<"{">>, JoinDumps(v, 1), <<"}">>)
      [] v.t = "cycle" -> Raise("ValueError")
      [] OTHER -> Raise("TypeError")

At(s, i) == IF i >= 1 /\ i <= Len(s) THEN s[i] ELSE "EOF"

Whitespace == {" ", "\n", "\t", "\r"}

RECURSIVE SkipWs(_, _)
SkipWs(s, i) == IF At(s, i) \in Whitespace THEN SkipWs(s, i + 1) ELSE i

Parsed(val, pos) == [ok |-> TRUE, val |-> val, pos |-> pos]

NoParse == [ok |-> FALSE, val |-> PNone, pos |-> 0]

RECURSIVE SkipDigits(_, _)
SkipDigits(s, i) == IF At(s, i) \in Digits THEN SkipDigits(s, i + 1) ELSE i

\* py_scanstring from the character after the opening quote
RECURSIVE ScanString(_, _, _)
ScanString(s, j, acc) ==
    CASE At(s, j) = "EOF" -> NoParse
      [] At(s, j) = "\"" -> Parsed(PStr(acc), j + 1)
      [] At(s, j) \in {ESC, "\n", "\t", "\r"} -> NoParse
      [] At(s, j) = "\\" ->
            CASE At(s, j + 1) \in {"\"", "\\", "/"} ->
                    ScanString(s, j + 2, Append(acc, At(s, j + 1)))
              [] At(s, j + 1) = "n" -> ScanString(s, j + 2, Append(acc, "\n"))
              [] At(s, j + 1) = "u" /\ StartsWith(s, <<"0", "0", "1", "b">>, j + 2) ->
                    ScanString(s, j + 6, Append(acc, ESC))
              [] OTHER -> NoParse
      [] OTHER -> ScanString(s, j + 1, Append(acc, At(s, j)))

\* the fraction s[e+1 .. f-1] after the integer n: only .0 is a model value
NumberFrac(n, e, f, frac) ==
    IF f > e + 1 /\ frac = 0 THEN Parsed(PFloat(n), f)
    ELSE IF f > e + 1 THEN NoParse
    ELSE Parsed(PInt(n), e)

\* the integer part is s[b .. e-1]
NumberInt(s, sign, b, e) ==
    IF e = b THEN NoParse
    ELSE IF At(s, e) = "."
    THEN NumberFrac(sign * StrToInt(SubSeq(s, b, e - 1)), e, SkipDigits(s, e + 1),
                    StrToInt(SubSeq(s, e + 1, SkipDigits(s, e + 1) - 1)))
    ELSE Parsed(PInt(sign * StrToInt(SubSeq(s, b, e - 1))), e)

NumberFrom(s, sign, b) ==
    NumberInt(s, sign, b, IF At(s, b) = "0" THEN b + 1 ELSE SkipDigits(s, b))

\* NUMBER_RE: -?(0|[1-9]\d*)(\.\d+)?
ScanNumber(s, i) ==
    IF At(s, i) = "-" THEN NumberFrom(s, 0 - 1, i + 1) ELSE NumberFrom(s, 1, i)

\* a repeated key keeps its first position and takes the last value
DictPut(d, k, v) ==
    IF \E i \in 1..Len(d.keys) : d.keys[i] = k
    THEN PDict(d.keys, [i \in 1..Len(d.kids) |-> IF d.keys[i] = k THEN v ELSE d.kids[i]])
    ELSE PDict(Append(d.keys, k), Append(d.kids, v))

RECURSIVE ScanOnce(_, _)
RECURSIVE ArrayItems(_, _, _)
RECURSIVE ObjectItems(_, _, _)

\* JSONArray: after a value, at the non-blank position k
ArrayAfter(s, k, acc) ==
    IF At(s, k) = "]" THEN Parsed(PList(acc), k + 1)
    ELSE IF At(s, k) = "," THEN ArrayItems(s, SkipWs(s, k + 1), acc)
    ELSE NoParse

ArrayValue(s, v, acc) ==
    IF ~v.ok THEN NoParse ELSE ArrayAfter(s, SkipWs(s, v.pos), Append(acc, v.val))

\* JSONArray with the next value at position j
ArrayItems(s, j, acc) == ArrayValue(s, ScanOnce(s, j), acc)

\* JSONObject: after a value, at the non-blank position m
ObjectAfter(s, m, d) ==
    IF At(s, m) = "}" THEN Parsed(d, m + 1)
    ELSE IF At(s, m) = "," /\ At(s, SkipWs(s, m + 1)) = "\""
    THEN ObjectItems(s, SkipWs(s, m + 1), d)
    ELSE NoParse

ObjectValue(s, name, v, d) ==
    IF ~v.ok THEN NoParse ELSE ObjectAfter(s, SkipWs(s, v.pos), DictPut(d, name, v.val))

ObjectColon(s, name, k, d) ==
    IF At(s, k) # ":" THEN NoParse
    ELSE ObjectValue(s, name, ScanOnce(s, SkipWs(s, k + 1)), d)

ObjectKey(s, key, d) ==
    IF ~key.ok THEN NoParse ELSE ObjectColon(s, key.val.s, SkipWs(s, key.pos), d)

\* JSONObject with s[j] the opening quote of the next key
ObjectItems(s, j, d) == ObjectKey(s, ScanString(s, j + 1, <<>>), d)

\* after "{" / "[", at the non-blank position j
ObjectStart(s, j) ==
    IF At(s, j) = "}" THEN Parsed(PDict(<<>>, <<>>), j + 1)
    ELSE IF At(s, j) = "\"" THEN ObjectItems(s, j, PDict(<<>>, <<>>))
    ELSE NoParse

ArrayStart(s, j) ==
    IF At(s, j) = "]" THEN Parsed(PList(<<>>), j + 1) ELSE ArrayItems(s, j, <<>>)

ScanOnce(s, i) ==
    CASE At(s, i) = "\"" -> ScanString(s, i + 1, <<>>)
      [] At(s, i) = "{" -> ObjectStart(s, SkipWs(s, i + 1))
      [] At(s, i) = "[" -> ArrayStart(s, SkipWs(s, i + 1))
      [] StartsWith(s, <<"n", "u", "l", "l">>, i) -> Parsed(PNone, i + 4)
      [] StartsWith(s, <<"t", "r", "u", "e">>, i) -> Parsed(PBool(TRUE), i + 4)
      [] StartsWith(s, <<"f", "a", "l", "s", "e">>, i) -> Parsed(PBool(FALSE), i + 5)
      [] OTHER -> ScanNumber(s, i)

\* nothing but blanks may follow the value
LoadsEnd(s, v) == IF v.ok /\ SkipWs(s, v.pos) = Len(s) + 1 THEN v ELSE NoParse

\* json.loads: ok = FALSE stands for JSONDecodeError
JsonLoads(s) == LoadsEnd(s, ScanOnce(s, SkipWs(s, 1)))

\* the wrapper of color_decorator(color_name), after result = func() and with
\* str the outcome of str(result): what it returns ("str": a colorized
\* string, "value": result itself) or raises
wrapper_str(v, str, color_name) ==
    IF v.t \in {"str", "bool", "float", "int", "dict", "list"}
    THEN IF str.exc # "none"
         THEN [exc |-> str.exc, returned |-> "none", out |-> <<>>]
         ELSE [exc |-> "none", returned |-> "str",
               out |-> colorize(str.out, color_name, NoColor)]
    ELSE IF str.exc = "TypeError"
         THEN [exc |-> "none", returned |-> "value", out |-> <<>>]
         ELSE IF str.exc # "none"
         THEN [exc |-> str.exc, returned |-> "none", out |-> <<>>]
         ELSE [exc |-> "none", returned |-> "str",
               out |-> colorize(str.out, color_name, NoColor)]

wrapper(v, color_name) == wrapper_str(v, PyStr(v), color_name)

----------------------------------------------------------------------------
(* theme_colorize *)

Theme(key, string, number, bool, null, other) ==
    [key |-> key, string |-> string, number |-> number,
     bool |-> bool, null |-> null, other |-> other]

dark_theme_colors ==
    Theme(<<"bright_cyan">>, <<"yellow">>, <<"bright_red">>,
          <<"magenta">>, <<"bright_magenta">>, <<"yellow">>)

minimalist_theme_colors ==
    Theme(<<"bright_black">>, <<"yellow">>, <<"magenta">>,
          <<"bright_black">>, <<"white">>, <<"white">>)

Spaces(n) == [k \in 1..n |-> " "]

UpperCase == <<"T", "R", "U", "E", "F", "A", "L", "S">>

LowerCase == <<"t", "r", "u", "e", "f", "a", "l", "s">>

LowerChar(c) ==
    IF \E k \in 1..Len(UpperCase) : UpperCase[k] = c
    THEN LowerCase[CHOOSE k \in 1..Len(UpperCase) : UpperCase[k] = c]
    ELSE c

StrLower(s) == [k \in 1..Len(s) |-> LowerChar(s[k])]

\* characters with the Unicode numeric property; float() takes the decimal
\* digits only
Numeric == Digits \cup {"²"}

IsNumeric(s) == s # <<>> /\ \A k \in 1..Len(s) : s[k] \in Numeric

\* float(data) of an all-numeric string
Float(s) ==
    IF \A k \in 1..Len(s) : s[k] \in Digits
    THEN [exc |-> "none", val |-> PFloat(StrToInt(s))]
    ELSE [exc |-> "ValueError", val |-> PNone]

Same(d) == [exc |-> "none", val |-> d]

\* with contextlib.suppress(TypeError, OverflowError): data = json.loads(json.dumps(data))
Normalized(d, j) ==
    IF j.exc \in {"TypeError", "OverflowError"} THEN Same(d)
    ELSE IF j.exc # "none" THEN [exc |-> j.exc, val |-> d]
    ELSE Same(JsonLoads(j.out).val)

Normalize(d) == Normalized(d, JsonDumps(d))

grey(t) == colorize(t, <<"grey">>, NoColor)

\* colorize(str(data), role color)
Painted(str, color_name) ==
    IF str.exc # "none" THEN Raise(str.exc)
    ELSE Ok(colorize(str.out, color_name, NoColor))

\* variant: the entry lines carry the indentation of the brackets
Lead_Flat(d, i, theme_colors, indent) ==
    IF d.t = "dict"
    THEN <<"\n">> \o indent \o <<"\"">>
             \o colorize(d.keys[i], theme_colors.key, NoColor)
             \o <<"\"", " ", ":", " ">>
    ELSE <<"\n">> \o indent

\* what precedes the value of entry i on its line
Lead(d, i, theme_colors, indent) ==
    IF d.t = "dict"
    THEN <<"\n">> \o indent \o <<" ", " ", "\"">>
             \o colorize(d.keys[i], theme_colors.key, NoColor)
             \o <<"\"", " ", ":", " ">>
    ELSE <<"\n">> \o indent \o <<" ", " ">>

\* opening bracket, entries, closing bracket on its own line
Block(open, items, indent, close) ==
    IF items.exc # "none" THEN items
    ELSE Ok(grey(open) \o items.out \o <<"\n">> \o indent \o grey(close))

RECURSIVE theme_colorize(_, _, _)
RECURSIVE RenderItems(_, _, _, _)

\* the loop over data.items() / data, from entry i on
RenderItems(d, i, theme_colors, indent_level) ==
    IF i > Len(d.kids) THEN Ok(<<>>)
    ELSE JoinStep(Lead(d, i, theme_colors, Spaces(2 * indent_level)),
                  theme_colorize(d.kids[i], theme_colors, indent_level + 1),
                  grey(<<",">>),
                  RenderItems(d, i + 1, theme_colors, indent_level))

\* the except json.JSONDecodeError branch, data.isnumeric() holding
NumericBranch(num, theme_colors, indent_level) ==
    IF num.exc # "none" THEN Raise(num.exc)
    ELSE theme_colorize(num.val, theme_colors, indent_level)

\* the isinstance(data, str) branch, parsed the outcome of json.loads(data)
StrBranch(s, parsed, theme_colors, indent_level) ==
    IF parsed.ok
    THEN theme_colorize(parsed.val, theme_colors, indent_level + 1)
    ELSE IF IsNumeric(s)
    THEN NumericBranch(Float(s), theme_colors, indent_level)
    ELSE IF StrLower(s) \in {<<"t", "r", "u", "e">>, <<"f", "a", "l", "s", "e">>}
    THEN theme_colorize(PBool(StrLower(s) = <<"t", "r", "u", "e">>),
                        theme_colors, indent_level)
    ELSE Ok(colorize(<<"\"">> \o s \o <<"\"">>, theme_colors.string, NoColor))

\* the isinstance chain on the normalized data
Dispatch(d, theme_colors, indent_level) ==
    CASE d.t = "dict" ->
            Block(<<"{">>, RenderItems(d, 1, theme_colors, indent_level),
                  Spaces(2 * indent_level), <<"}">>)
      [] d.t = "list" ->
            Block(<<"[">>, RenderItems(d, 1, theme_colors, indent_level),
                  Spaces(2 * indent_level), <<"]">>)
      [] d.t = "str" -> StrBranch(d.s, JsonLoads(d.s), theme_colors, indent_level)
      [] d.t = "bool" -> Painted(PyStr(d), theme_colors.bool)
      [] d.t \in {"int", "float"} -> Painted(PyStr(d), theme_colors.number)
      [] d.t = "none" -> Painted(Ok(<<"n", "u", "l", "l">>), theme_colors.null)
      [] d.t = "cycle" -> Raise("RecursionError")
      [] OTHER -> Painted(PyStr(d), theme_colors.other)

Normalizing(norm, theme_colors, indent_level) ==
    IF norm.exc # "none" THEN Raise(norm.exc)
    ELSE Dispatch(norm.val, theme_colors, indent_level)

theme_colorize(data0, theme_colors, indent_level) ==
    Normalizing(IF data0.t \in {"dict", "list"} THEN Normalize(data0) ELSE Same(data0),
                theme_colors, indent_level)

----------------------------------------------------------------------------
(* Inputs *)

FgNames == {NoColor, <<"red">>, <<"RED">>, <<"bright_green">>, <<"grey">>, <<"orange">>}

BgNames == {NoColor, <<"blue">>, <<"bg_", "blue">>, <<"bright_red">>, <<"grey">>}

\* return values of the callables wrapped by color_decorator
ReturnValues ==
    { PStr(<<>>), PStr(<<"a">>), PStr(<<"a", ESC, "[", "0", "m", "a">>),
      PBool(TRUE), PInt(42), PFloat(7), PNone,
      PList(<<PInt(1), PStr(<<"a">>)>>),
      PDict(<<<<"k">>>>, <<PStr(<<"'">>)>>),
      PObj(<<"o">>, "ok"), PObj(<<>>, "TypeError"), PObj(<<>>, "ValueError"),
      PList(<<PObj(<<>>, "TypeError")>>) }

\* a theme supplied by the caller: mixed case and unknown names
custom_theme_colors ==
    Theme(<<"RED">>, <<"grey">>, <<"BLUE">>, <<"green">>, <<"grey">>, <<"orange">>)

Themes == {dark_theme_colors, minimalist_theme_colors, custom_theme_colors}

Leaves ==
    { PStr(<<"a">>), PStr(<<"7">>), PBool(TRUE), PInt(1), PNone, PObj(<<"o">>, "ok") }

Keys == {<<"a">>, <<"b">>}

KeySeqs == {ks \in SeqsUpTo(Keys, MaxItems) : \A i, j \in 1..Len(ks) : i # j => ks[i] # ks[j]}

Flat ==
    LET items == SeqsUpTo(Leaves, MaxItems)
    IN  {PList(kids) : kids \in items}
            \cup {d \in {PDict(ks, kids) : ks \in KeySeqs, kids \in items} :
                     Len(d.keys) = Len(d.kids)}

RECURSIVE Containers(_)
Containers(depth) ==
    IF depth <= 1 THEN Flat
    ELSE LET below == Containers(depth - 1)
         IN  below \cup {PList(<<c>>) : c \in below}
                   \cup {PDict(<<<<"a">>>>, <<c>>) : c \in below}

Scalars ==
    Leaves \cup { PBool(FALSE), PFloat(7), PObj(<<>>, "ValueError") }

StringSamples ==
    { <<>>, <<"0", "7">>, <<"t", "r", "u", "e">>, <<"T", "r", "u", "e">>,
      <<"n", "u", "l", "l">>, <<"\"", "a", "\"">>, <<"[", "7", "]">>,
      <<"[", "7", ",", "]">>, <<"²">>,
      <<"a", ESC, "[", "0", "m", "a">> }

\* the JSON text of every serializable container
JsonTexts ==
    {JsonDumps(c).out : c \in {x \in Containers(MaxDepth) : JsonDumps(x).exc = "none"}}

\* self-referential containers
Cyclic ==
    { PList(<<PCycle("list")>>), PDict(<<<<"a">>>>, <<PCycle("dict")>>),
      PList(<<PInt(1), PCycle("list")>>), PList(<<PList(<<PCycle("list")>>)>>),
      PList(<<PObj(<<"o">>, "ok"), PCycle("list")>>) }

DataInputs ==
    Scalars \cup Containers(MaxDepth) \cup Cyclic
        \cup {PStr(x) : x \in StringSamples \cup JsonTexts}

LookupNames == {<<"red">>, <<"blue">>, <<"orange">>, <<"grey">>}

----------------------------------------------------------------------------
(* Actions *)

NoInner == [used |-> FALSE, pre |-> <<>>, mid |-> <<>>, color |-> NoColor, post |-> <<>>]

Init ==
    /\ pc = "unbuilt"
    /\ source \in ConfigSources
    /\ config = NoSource
    /\ colors = [n \in {} |-> RESET]
    /\ bg_colors = [n \in {} |-> RESET]
    /\ op = "none"
    /\ text = <<>>
    /\ color = NoColor
    /\ background_color = NoColor
    /\ inner = NoInner
    /\ data = PNone
    /\ theme = dark_theme_colors
    /\ level = 0
    /\ result = <<>>
    /\ returned = "none"
    /\ raised = "none"

\* a call returns the string r.out or raises r.exc
Returns(r) ==
    /\ result' = r.out
    /\ returned' = IF r.exc = "none" THEN "str" ELSE "none"
    /\ raised' = r.exc

\* the decorated callable returns a string, the wrapped value, or raises
WrapperReturns(r) ==
    /\ result' = r.out
    /\ returned' = r.returned
    /\ raised' = r.exc

\* Colorizer(ColorConfig(source))
Construct ==
    /\ pc = "unbuilt"
    /\ pc' = "idle"
    /\ config' = ColorConfigInit(source)
    /\ colors' = LoadedColors
    /\ bg_colors' = LoadedBgColors
    /\ op' = "construct"
    /\ UNCHANGED <<source, text, color, background_color, inner, data,
                   theme, level, result, returned, raised>>

\* variant: a name the palette does not know is entered into it with code 0
Colorize_Learning ==
    /\ pc = "idle"
    /\ \E t \in Texts, c \in FgNames, b \in BgNames :
          /\ text' = t
          /\ color' = c
          /\ background_color' = b
          /\ result' = colorize(t, c, b)
          /\ colors' = IF c = NoColor \/ Lower(c) \in DOMAIN colors THEN colors
                        ELSE [n \in DOMAIN colors \cup {Lower(c)} |->
                                 IF n \in DOMAIN colors THEN colors[n]
                                 ELSE AnsiColor(0, n)]
    /\ pc' = "done"
    /\ op' = "colorize"
    /\ inner' = NoInner
    /\ data' = PNone
    /\ returned' = "str"
    /\ raised' = "none"
    /\ UNCHANGED <<source, config, bg_colors, theme, level>>

\* default_colorizer.colorize(t, c, b)
Colorize ==
    /\ pc = "idle"
    /\ \E t \in Texts, c \in FgNames, b \in BgNames :
          /\ text' = t
          /\ color' = c
          /\ background_color' = b
          /\ result' = colorize(t, c, b)
    /\ pc' = "done"
    /\ op' = "colorize"
    /\ inner' = NoInner
    /\ data' = PNone
    /\ returned' = "str"
    /\ raised' = "none"
    /\ UNCHANGED <<source, config, colors, bg_colors, theme, level>>

\* colorize(pre + colorize(mid, inner color) + post, c, b): the previous
\* call's return value is embedded in the text of the next call
ColorizeNested ==
    /\ pc = "done"
    /\ op = "colorize"
    /\ ~inner.used
    /\ background_color = NoColor
    /\ text \in Plain
    /\ \E pre \in Plain, post \in Plain, c \in FgNames, b \in BgNames :
          /\ inner' = [used |-> TRUE, pre |-> pre, mid |-> text,
                       color |-> color, post |-> post]
          /\ text' = pre \o result \o post
          /\ color' = c
          /\ background_color' = b
          /\ result' = colorize(pre \o result \o post, c, b)
    /\ pc' = "done"
    /\ op' = "colorize"
    /\ data' = PNone
    /\ returned' = "str"
    /\ raised' = "none"
    /\ UNCHANGED <<source, config, colors, bg_colors, theme, level>>

\* ColorConfig.get_color_code(name) on the engine's config
ConfigGetColorCode ==
    /\ pc = "idle"
    /\ \E name \in LookupNames :
          /\ color' = name
          /\ Returns(config_get_color_code(name))
    /\ pc' = "done"
    /\ op' = "config_get_color_code"
    /\ text' = <<>>
    /\ background_color' = NoColor
    /\ inner' = NoInner
    /\ data' = PNone
    /\ UNCHANGED <<source, config, colors, bg_colors, theme, level>>

\* ColorConfig.get_bg_color_code(name) on the engine's config
ConfigGetBgColorCode ==
    /\ pc = "idle"
    /\ \E name \in LookupNames :
          /\ background_color' = name
          /\ Returns(config_get_bg_color_code(name))
    /\ pc' = "done"
    /\ op' = "config_get_bg_color_code"
    /\ text' = <<>>
    /\ color' = NoColor
    /\ inner' = NoInner
    /\ data' = PNone
    /\ UNCHANGED <<source, config, colors, bg_colors, theme, level>>

\* a callable decorated with color_decorator(c) is called and returns v
ColorDecoratorCall ==
    /\ pc = "idle"
    /\ \E v \in ReturnValues, c \in FgNames \ {NoColor} :
          /\ data' = v
          /\ color' = c
          /\ WrapperReturns(wrapper(v, c))
    /\ pc' = "done"
    /\ op' = "color_decorator"
    /\ text' = <<>>
    /\ background_color' = NoColor
    /\ inner' = NoInner
    /\ UNCHANGED <<source, config, colors, bg_colors, theme, level>>

\* default_colorizer.theme_colorize(d, th, lvl)
ThemeColorize ==
    /\ pc = "idle"
    /\ \E d \in DataInputs, th \in Themes, lvl \in 0..MaxIndent :
          /\ data' = d
          /\ theme' = th
          /\ level' = lvl
          /\ Returns(theme_colorize(d, th, lvl))
    /\ pc' = "done"
    /\ op' = "theme_colorize"
    /\ text' = <<>>
    /\ color' = NoColor
    /\ background_color' = NoColor
    /\ inner' = NoInner
    /\ UNCHANGED <<source, config, colors, bg_colors>>

\* a callable decorated by create_themed_decorator_factory(name, th) is
\* called and returns d
ThemedDecoratorCall ==
    /\ pc = "idle"
    /\ \E d \in DataInputs, th \in Themes :
          /\ data' = d
          /\ theme' = th
          /\ Returns(theme_colorize(d, th, 0))
    /\ pc' = "done"
    /\ op' = "themed_decorator"
    /\ level' = 0
    /\ text' = <<>>
    /\ color' = NoColor
    /\ background_color' = NoColor
    /\ inner' = NoInner
    /\ UNCHANGED <<source, config, colors, bg_colors>>

\* the caller takes the return value; the engine is ready for the next call
Return ==
    /\ pc = "done"
    /\ pc' = "idle"
    /\ op' = "none"
    /\ text' = <<>>
    /\ color' = NoColor
    /\ background_color' = NoColor
    /\ inner' = NoInner
    /\ data' = PNone
    /\ theme' = dark_theme_colors
    /\ level' = 0
    /\ result' = <<>>
    /\ returned' = "none"
    /\ raised' = "none"
    /\ UNCHANGED <<source, config, colors, bg_colors>>

Next ==
    \/ Construct
    \/ Colorize
    \/ ColorizeNested
    \/ ConfigGetColorCode
    \/ ConfigGetBgColorCode
    \/ ColorDecoratorCall
    \/ ThemeColorize
    \/ ThemedDecoratorCall
    \/ Return

Spec == Init /\ [][Next]_vars

----------------------------------------------------------------------------
(* Vocabulary of the properties *)

\* the name resolves in the engine's foreground / background palette
FgResolves(c) == c # NoColor /\ Lower(c) \in DOMAIN colors

BgResolves(b) == b # NoColor /\ Lower(b) \in DOMAIN bg_colors

FgCode(c) == colors[Lower(c)].code

BgCode(b) == bg_colors[Lower(b)].code

Sgr(params) == <<ESC, "[">> \o params \o <<"m">>

ResetSeq == <<ESC, "[", "0", "m">>

\* the opening tag the palette prescribes for a pair of names
OpeningTag(c, b) ==
    IF FgResolves(c) /\ BgResolves(b)
    THEN Sgr(IntToStr(FgCode(c)) \o <<";">> \o IntToStr(BgCode(b)))
    ELSE IF FgResolves(c) THEN Sgr(IntToStr(FgCode(c)))
    ELSE IF BgResolves(b) THEN Sgr(IntToStr(BgCode(b)))
    ELSE <<>>

OccursAt(s, p, i) ==
    /\ i >= 1
    /\ i + Len(p) - 1 <= Len(s)
    /\ SubSeq(s, i, i + Len(p) - 1) = p

ResetPositions(s) == {i \in 1..Len(s) : OccursAt(s, ResetSeq, i)}

ContainsReset(s) == ResetPositions(s) # {}

\* every reset of the output except the trailing one is followed by tag, and
\* the output has one reset more than the text
ResetsReopened(out, txt, tag) ==
    /\ Cardinality(ResetPositions(out)) = Cardinality(ResetPositions(txt)) + 1
    /\ \A i \in ResetPositions(out) :
          i + Len(ResetSeq) - 1 < Len(out) => OccursAt(out, tag, i + Len(ResetSeq))

\* removal of the color escape sequences ESC [ <digits and ;> m
RECURSIVE SkipParams(_, _)
SkipParams(s, i) ==
    IF At(s, i) \in Digits \cup {";"} THEN SkipParams(s, i + 1) ELSE i

RECURSIVE StripFrom(_, _)
StripFrom(s, i) ==
    IF i > Len(s) THEN <<>>
    ELSE IF s[i] = ESC /\ At(s, i + 1) = "[" /\ At(s, SkipParams(s, i + 2)) = "m"
    THEN StripFrom(s, SkipParams(s, i + 2) + 1)
    ELSE <<s[i]>> \o StripFrom(s, i + 1)

StripAnsi(s) == StripFrom(s, 1)

\* a theme none of whose color names is known: the rendering carries no color
plain_theme_colors ==
    Theme(<<"none">>, <<"none">>, <<"none">>, <<"none">>, <<"none">>, <<"none">>)

----------------------------------------------------------------------------
(* C1: when foreground and background are each absent or unknown to the    *)
(* palette, colorize returns the text exactly, embedded resets included.   *)

C1_Identity ==
    (pc = "done" /\ op = "colorize" /\ ~FgResolves(color) /\ ~BgResolves(background_color))
        => result = text

C1_Witness ==
    /\ pc = "done" /\ op = "colorize"
    /\ color = <<"grey">> /\ background_color = <<"grey">>
    /\ ContainsReset(text)
    /\ result = text

(* C2: with a non-empty opening tag S, every reset embedded in the text is *)
(* immediately followed by S in the output; colorize(pre + colorize(mid,   *)
(* inner) + post, outer) is S pre G mid RESET S post RESET.                *)

C2_NestedResetRepair ==
    (pc = "done" /\ op = "colorize" /\ OpeningTag(color, background_color) # <<>>)
        => LET S == OpeningTag(color, background_color)
           IN  /\ ResetsReopened(result, text, S)
               /\ (inner.used /\ FgResolves(inner.color))
                     => result = S \o inner.pre
                                   \o Sgr(IntToStr(FgCode(inner.color))) \o inner.mid
                                   \o ResetSeq \o S \o inner.post \o ResetSeq

C2_Witness ==
    /\ pc = "done" /\ op = "colorize"
    /\ inner.used /\ inner.color = <<"bright_green">>
    /\ inner.pre # <<>> /\ inner.mid # <<>> /\ inner.post # <<>>
    /\ color = <<"red">> /\ background_color = NoColor
    /\ result = <<ESC, "[", "3", "1", "m", "a", ESC, "[", "9", "2", "m", "a",
                  ESC, "[", "0", "m", ESC, "[", "3", "1", "m", "a",
                  ESC, "[", "0", "m">>

(* C3: when both names resolve, the output begins with exactly one opening *)
(* sequence ESC[<fg>;<bg>m, and that composite tag follows each embedded   *)
(* reset.                                                                  *)

C3_CompositeTag ==
    (pc = "done" /\ op = "colorize" /\ FgResolves(color) /\ BgResolves(background_color))
        => LET tag == Sgr(IntToStr(FgCode(color)) \o <<";">>
                              \o IntToStr(BgCode(background_color)))
               n == Cardinality(ResetPositions(text))
           IN  /\ OccursAt(result, tag, 1)
               /\ Len(result) = Len(tag) + Len(text) + n * Len(tag) + Len(ResetSeq)
               /\ ResetsReopened(result, text, tag)

C3_Witness ==
    /\ pc = "done" /\ op = "colorize"
    /\ color = <<"RED">> /\ background_color = <<"blue">>
    /\ ContainsReset(text)
    /\ OccursAt(result, <<ESC, "[", "3", "1", ";", "4", "4", "m">>, 1)

(* C4: for a text without embedded reset (the empty text included) and a   *)
(* resolved color, colorize returns opening tag + text + ESC[0m.           *)

C4_Wrap ==
    (/\ pc = "done" /\ op = "colorize"
     /\ FgResolves(color) \/ BgResolves(background_color)
     /\ ~ContainsReset(text))
        => result = OpeningTag(color, background_color) \o text \o ResetSeq

C4_Witness ==
    /\ pc = "done" /\ op = "colorize"
    /\ color = <<"red">> /\ background_color = NoColor
    /\ text = <<>>
    /\ result = <<ESC, "[", "3", "1", "m", ESC, "[", "0", "m">>

(* C6: for every built-in base color n, a background name "bg_" + n gives  *)
(* the same output as the background name n.                               *)

C6_BgPrefixStripped ==
    (/\ pc = "done" /\ op = "colorize"
     /\ Len(background_color) > 1
     /\ LowerChunk(Head(background_color)) = "bg_"
     /\ \E p \in ansi_bg_colors : p[1] = Lower(background_color))
        => result = colorize(text, color, Tail(background_color))

(* C7: a config source entry name -> {code: c} makes colorize with that    *)
(* name resolve to code c, for new names and for overridden built-ins.     *)

C7_OverrideTable ==
    (/\ pc = "done" /\ op = "colorize"
     /\ color \in DOMAIN source /\ source[color].has_code
     /\ background_color = NoColor
     /\ ~ContainsReset(text))
        => result = Sgr(IntToStr(source[color].code)) \o text \o ResetSeq

(* C8: a config source with an entry lacking the code field makes          *)
(* construction fail; no engine is ever constructed from it.               *)

C8_MalformedFailsConstruction ==
    (\E n \in DOMAIN source : ~source[n].has_code) => pc = "unbuilt"

(* C10: the wrapper made by color_decorator never raises: it returns       *)
(* colorize(str(v), color) when v can be stringified and v itself when     *)
(* stringifying fails, whatever the failure.                               *)

BestEffort(str) ==
    /\ raised = "none"
    /\ str.exc = "none" => (returned = "str" /\ result = colorize(str.out, color, NoColor))
    /\ str.exc # "none" => returned = "value"

C10_DecoratorNeverThrows ==
    (pc = "done" /\ op = "color_decorator") => BestEffort(PyStr(data))

(* C5: theme_colorize of the JSON text of a mapping or sequence d returns  *)
(* the same string, indentation included, as theme_colorize of d at the    *)
(* same indent level.                                                      *)

SameAsJsonText(json) ==
    json.exc = "none"
        => theme_colorize(PStr(json.out), theme, level) = [exc |-> raised, out |-> result]

C5_StringStructureEquivalence ==
    (pc = "done" /\ op = "theme_colorize" /\ data.t \in {"dict", "list"})
        => SameAsJsonText(JsonDumps(data))

(* C9: removing the escape sequences from a colorize output gives the text *)
(* with its own escape sequences removed; removing them from a             *)
(* theme_colorize output gives the uncolored rendering of the data.        *)

C9_RoundTrip ==
    /\ (pc = "done" /\ op = "colorize") => StripAnsi(result) = StripAnsi(text)
    /\ (pc = "done" /\ op \in {"theme_colorize", "themed_decorator"} /\ raised = "none")
          => StripAnsi(result)
                 = StripAnsi(theme_colorize(data, plain_theme_colors, level).out)

C9_Witness ==
    /\ pc = "done" /\ op = "colorize"
    /\ text = <<"a", ESC, "[", "0">>
    /\ color = <<"red">> /\ background_color = <<"blue">>
    /\ result # text
    /\ StripAnsi(result) = text

C9_ThemeWitness ==
    /\ pc = "done" /\ op = "theme_colorize"
    /\ data = PDict(<<<<"a">>>>, <<PStr(<<"a">>)>>)
    /\ theme = dark_theme_colors /\ level = 0
    /\ \E i \in 1..Len(result) : result[i] = ESC
    /\ StripAnsi(result) = <<"{", "\n", " ", " ", "\"", "a", "\"", " ", ":", " ",
                             "\"", "a", "\"", ",", "\n", "}">>

\* C11: a boolean handed to theme_colorize is rendered as the lower-case
\* literal true / false wrapped in the color of theme["bool"] (and not in the
\* color of theme["number"]).
C11_BoolLiteral ==
    (pc = "done" /\ op = "theme_colorize" /\ data.t = "bool")
        => /\ raised = "none"
           /\ result = colorize(IF data.n = 1 THEN <<"t", "r", "u", "e">>
                                              ELSE <<"f", "a", "l", "s", "e">>,
                                theme.bool, NoColor)

\* the value holds an entry that is its own container
RECURSIVE IsCyclic(_)
IsCyclic(d) == d.t = "cycle" \/ \E i \in 1..Len(d.kids) : IsCyclic(d.kids[i])

\* C12: theme_colorize of a self-referential list or dict raises nothing and
\* returns a string (the failure of the JSON normalization is ignored).
C12_CycleIgnored ==
    (pc = "done" /\ op = "theme_colorize" /\ IsCyclic(data))
        => (raised = "none" /\ returned = "str")

----------------------------------------------------------------------------
(* C13: a dict or list rendered at indent level L is the opening bracket,  *)
(* then per entry, in order, a new line of 2*(L+1) spaces, the entry (for  *)
(* a dict the quoted key in theme["key"], " : ", the value) and a comma,   *)
(* then a new line of 2*L spaces and the closing bracket; a container that *)
(* is a value or element is laid out at level L+1; an empty container is   *)
(* the two brackets with only the new line and 2*L spaces between them.    *)

IsContainer(d) == d.t \in {"dict", "list"}

RECURSIVE Layout(_, _, _)
RECURSIVE LayoutEntries(_, _, _, _)

LayoutEntries(d, i, th, L) ==
    IF i > Len(d.kids) THEN <<>>
    ELSE <<"\n">> \o Spaces(2 * (L + 1))
           \o (IF d.t = "dict"
               THEN <<"\"">> \o colorize(d.keys[i], th.key, NoColor) \o <<"\"", " ", ":", " ">>
               ELSE <<>>)
           \o Layout(d.kids[i], th, L + 1)
           \o grey(<<",">>)
           \o LayoutEntries(d, i + 1, th, L)

Layout(d, th, L) ==
    IF IsContainer(d)
    THEN grey(IF d.t = "dict" THEN <<"{">> ELSE <<"[">>)
           \o LayoutEntries(d, 1, th, L)
           \o <<"\n">> \o Spaces(2 * L)
           \o grey(IF d.t = "dict" THEN <<"}">> ELSE <<"]">>)
    ELSE theme_colorize(d, th, L).out

C13_Layout ==
    (pc = "done" /\ op = "theme_colorize" /\ IsContainer(data) /\ raised = "none")
        => result = Layout(data, theme, level)

C13_Witness ==
    /\ pc = "done" /\ op = "theme_colorize" /\ raised = "none"
    /\ data = PDict(<<<<"a">>>>, <<PList(<<PInt(1), PStr(<<"a">>)>>)>>)
    /\ theme = custom_theme_colors
    /\ level = 1
    /\ StripAnsi(result)
         = <<"{", "\n", " ", " ", " ", " ", "\"", "a", "\"", " ", ":", " ", "[",
             "\n", " ", " ", " ", " ", " ", " ", "1", ",",
             "\n", " ", " ", " ", " ", " ", " ", "\"", "a", "\"", ",",
             "\n", " ", " ", " ", " ", "]", ",",
             "\n", " ", " ", "}">>

----------------------------------------------------------------------------
(* C14: the brackets theme_colorize emits around a dict or list are each   *)
(* wrapped in the opening sequence of one fixed color and a reset.         *)

\* t wrapped in the opening sequence of SGR code and a reset
WrappedIn(code, t) == Sgr(IntToStr(code)) \o t \o ResetSeq

SgrCodes == 1..107

C14_GreyPunctuation ==
    (pc = "done" /\ op = "theme_colorize" /\ IsContainer(data) /\ raised = "none")
        => \E code \in SgrCodes :
              LET open == WrappedIn(code, IF data.t = "dict" THEN <<"{">> ELSE <<"[">>)
                  close == WrappedIn(code, IF data.t = "dict" THEN <<"}">> ELSE <<"]">>)
              IN  /\ OccursAt(result, open, 1)
                  /\ OccursAt(result, close, Len(result) - Len(close) + 1)

----------------------------------------------------------------------------
(* C15: a string that is not JSON and consists of numeric characters only  *)
(* is rendered as a floating-point number in theme["number"], and          *)
(* theme_colorize raises nothing.                                          *)

\* str() of the floats 0.0 .. 99.0
FloatTexts == {IntToStr(n) \o <<".", "0">> : n \in 0..99}

C15_NumericString ==
    (/\ pc = "done" /\ op = "theme_colorize"
     /\ data.t = "str" /\ IsNumeric(data.s) /\ ~JsonLoads(data.s).ok)
        => /\ raised = "none"
           /\ \E f \in FloatTexts : result = colorize(f, theme.number, NoColor)

----------------------------------------------------------------------------
(* C16: once the engine is built, no call changes its foreground or        *)
(* background palette (or its configuration), and what a call returns or   *)
(* raises is determined by its arguments alone, whatever calls preceded.   *)

\* the outcome held by the state is the operation applied to the arguments
ResultOfArguments ==
    CASE op = "colorize" ->
            result = colorize(text, color, background_color)
      [] op = "theme_colorize" ->
            [exc |-> raised, out |-> result] = theme_colorize(data, theme, level)
      [] op = "themed_decorator" ->
            [exc |-> raised, out |-> result] = theme_colorize(data, theme, 0)
      [] op = "color_decorator" ->
            [exc |-> raised, returned |-> returned, out |-> result] = wrapper(data, color)
      [] OTHER -> TRUE

PaletteAsLoaded == colors = LoadedColors /\ bg_colors = LoadedBgColors

C16_Frame ==
    /\ [](pc # "unbuilt" => PaletteAsLoaded)
    /\ [](pc = "done" => ResultOfArguments)
    /\ [][pc # "unbuilt" => UNCHANGED <<colors, bg_colors, config>>]_vars

\* a second colorize call, made after (and on the output of) a first one
C16_Witness ==
    /\ pc = "done" /\ op = "colorize" /\ inner.used
    /\ FgResolves(color) /\ ~FgResolves(inner.color) /\ inner.color # NoColor
    /\ PaletteAsLoaded
    /\ result = colorize(text, color, background_color)
    /\ result # text

----------------------------------------------------------------------------
(* Depth of the recursion of theme_colorize: the number of theme_colorize  *)
(* calls nested inside the outermost one, branch by branch as in the code  *)

Max(a, b) == IF a >= b THEN a ELSE b

RECURSIVE theme_colorize_depth(_)
RECURSIVE ItemsDepth(_, _)

\* the deepest call made by the loop over the entries from i on
ItemsDepth(d, i) ==
    IF i > Len(d.kids) THEN 0
    ELSE Max(1 + theme_colorize_depth(d.kids[i]), ItemsDepth(d, i + 1))

\* the isinstance(data, str) branch
StrDepth(s, parsed) ==
    IF parsed.ok THEN 1 + theme_colorize_depth(parsed.val)
    ELSE IF IsNumeric(s) THEN (IF Float(s).exc = "none" THEN 1 ELSE 0)
    ELSE IF StrLower(s) \in {<<"t", "r", "u", "e">>, <<"f", "a", "l", "s", "e">>} THEN 1
    ELSE 0

DispatchDepth(d) ==
    CASE d.t \in {"dict", "list"} -> ItemsDepth(d, 1)
      [] d.t = "str" -> StrDepth(d.s, JsonLoads(d.s))
      [] OTHER -> 0

theme_colorize_depth(data0) ==
    DispatchDepth(IF data0.t \in {"dict", "list"} THEN Normalize(data0).val ELSE data0)

----------------------------------------------------------------------------
(* C17: theme_colorize returns on every acyclic input, and its recursion   *)
(* is as deep as the containers of the data are nested: a scalar or a      *)
(* string adds no call below the one that renders it.                      *)

\* nesting depth of the data: 0 for a scalar, a string or an empty container
RECURSIVE Nesting(_)
RECURSIVE KidsNesting(_, _)

KidsNesting(d, i) ==
    IF i > Len(d.kids) THEN 0 ELSE Max(1 + Nesting(d.kids[i]), KidsNesting(d, i + 1))

Nesting(d) == IF IsContainer(d) THEN KidsNesting(d, 1) ELSE 0

C17_DepthIsNesting ==
    (pc = "done" /\ op = "theme_colorize" /\ ~IsCyclic(data) /\ raised = "none")
        => theme_colorize_depth(data) = Nesting(data)

====
